---- MODULE Spec2Model ----
(***************************************************************************)
(* Model of django_ethereum_events: the celery task event_listener         *)
(* (tasks.py) guarded by the cache lock, and EventListener                 *)
(* (event_listener.py) with its two retrieval strategies.                  *)
(*                                                                         *)
(* Shared state is the Daemon table, the cache (lock key and update key),  *)
(* the MonitoredEvent table and the node behind the Web3Service client.    *)
(* Every worker process that runs the task has its own locals.             *)
(***************************************************************************)
EXTENDS Integers, Sequences, FiniteSets, TLC

\* ---------------------------------------------------------------- bounds
MaxHead == 3            \* highest block the node ever reports
MaxBatch == 1           \* largest ethereum_logs_batch_size set on a Daemon row
MaxRaise == 2           \* handlers that raise within one save_events call

\* ------------------------------------------------------ program constants
ETHEREUM_LOGS_BATCH_SIZE == 10000   \* getattr(settings, ..., 10000)

\* The deployment: two rows of the Daemon table, processed in this order by
\* the loop of the task, and two celery workers that may run the task at once.
Chains == {1, 2}
Workers == {1, 2}
LastChain == CHOOSE c \in Chains : \A d \in Chains : d <= c

Min(a, b) == IF a < b THEN a ELSE b

\* (address, topic) pairs seen in logs.  "A" is watched by chain 1, "B" by
\* chain 2, "C" may be added to chain 1 while the system runs, "U" is never
\* watched.  A pair belongs to at most one chain (unique_together).
Pairs == {"A", "B", "C", "U"}
PairOrder == <<"A", "B", "C">>

\* A raw log entry of the node.
Log(b, k, t, p) == [blockNumber |-> b, logIndex |-> k, transactionIndex |-> t, pair |-> p]

\* Content of block b of the node: a sequence of transactions, each the
\* sequence of logs of its receipt.
Block(b) == << <<Log(b, 0, 0, "A"), Log(b, 1, 0, "U")>>,
               <<Log(b, 2, 1, "B"), Log(b, 3, 1, "C")>> >>
TxIndexes == 1..2

\* The (None, None) of _get_block_range: a value that is no pair of block
\* numbers, so that no resolved range can be taken for it.
None == <<>>

VARIABLES
    \* Daemon table (models.py)
    block_number,                   \* [Chains -> Nat]   last block processed
    last_error_block_number,        \* [Chains -> Nat]
    \* MonitoredEvent table: pair -> chain watching it, 0 when not watched
    monitored_table,
    \* cache
    lock,                           \* LOCK_KEY present
    update_required,                \* CACHE_UPDATE_KEY value
    \* node: Web3Service is a process-wide singleton, so the listeners of all
    \* chains query one node
    blockNumber,                    \* web3.eth.blockNumber, as last reported
    \* locals of each worker's invocation of event_listener
    pc, status, daemons, cur, monitored_events,
    ethereum_logs_filter_available, ethereum_logs_batch_size,
    rng, pending, logs, calls, records, bad,
    \* history of the current invocation, per worker
    visited, outcome, failedAt, maxDispatched, startCursor, hd,
    \* the block the gate reloaded the decoder table for, from the reload
    \* until the logs of the block are handed to save_events; 0 otherwise
    reloadedAt,
    \* history of the receivers: per chain, the highest block of a unit that
    \* save_events was called for
    handedUpTo,
    \* how the invocation whose return led to this state ended, else "none"
    returned

shared == <<block_number, last_error_block_number, monitored_table, lock,
            update_required, blockNumber>>
locals == <<pc, status, daemons, cur, monitored_events, ethereum_logs_filter_available,
            ethereum_logs_batch_size, rng, pending, logs, calls, records, bad>>
history == <<visited, outcome, failedAt, maxDispatched, startCursor, hd>>
trace == <<reloadedAt, handedUpTo>>
vars == <<shared, locals, history, trace, returned>>

\* ------------------------------------------------------- pure operators

\* EventListener.__init__, lines 30-33: the batch size in effect, given the
\* Daemon row's ethereum_logs_batch_size (0 for null).
BatchSize(configured) ==
    IF configured # 0 THEN configured ELSE ETHEREUM_LOGS_BATCH_SIZE

\* _get_block_range that forgets the head: end = start + step.
GetBlockRangeNoMin(cursor, current, step) ==
    IF cursor < current
    THEN LET start == cursor + 1 IN <<start, start + step>>
    ELSE None

\* _get_block_range that starts at the cursor: the block last processed is
\* in the range again.
GetBlockRangeFromCursor(cursor, current, step) ==
    IF cursor < current
    THEN <<cursor, Min(current, cursor + step)>>
    ELSE None

\* EventListener._get_block_range
GetBlockRange(cursor, current, step) ==
    IF cursor < current
    THEN LET start == cursor + 1 IN <<start, Min(current, start + step)>>
    ELSE None

\* get_pending_blocks with list(range(start, end)): the last block of the
\* range is left out.
GetPendingBlocksExclusive(r) ==
    IF r = None THEN <<>>
    ELSE [k \in 1..(r[2] - r[1]) |-> r[1] + k - 1]

\* EventListener.get_pending_blocks: list(range(start, end + 1))
GetPendingBlocks(r) ==
    IF r = None THEN <<>>
    ELSE [k \in 1..(r[2] + 1 - r[1]) |-> r[1] + k - 1]

\* Decoder table of a chain: the watched pairs of that chain.
WatchedBy(c) == {p \in Pairs : monitored_table[p] = c}

RECURSIVE Flatten(_)
Flatten(ss) == IF ss = <<>> THEN <<>> ELSE Head(ss) \o Flatten(Tail(ss))

\* EventListener.get_block_logs on a block that was found: the logs of the
\* transactions whose receipt is available (received), kept when their
\* (address, topic) is in the decoder table, in block order.
GetBlockLogs(b, received, monitored) ==
    LET txs == Block(b)
        perTx == [t \in 1..Len(txs) |->
                    IF t \in received
                    THEN SelectSeq(txs[t], LAMBDA l : l.pair \in monitored)
                    ELSE <<>>]
    IN Flatten(perTx)

\* One range query of the filter strategy: logs of pair p in [from, to].
RangeQuery(p, from, to) ==
    LET perBlock == [k \in 1..(to + 1 - from) |->
                       SelectSeq(Flatten(Block(from + k - 1)), LAMBDA l : l.pair = p)]
    IN Flatten(perBlock)

\* _execute_using_filters, lines 170-182: all_logs extended pair by pair,
\* when the pairs come in the order of PairOrder and the entries of every
\* query in the order of the chain.
AllLogs(monitored, from, to) ==
    LET keys == SelectSeq(PairOrder, LAMBDA p : p \in monitored)
    IN Flatten([k \in 1..Len(keys) |-> RangeQuery(keys[k], from, to)])

\* The orders in which the elements of a sequence can come.
Perms(s) == {[k \in 1..Len(s) |-> s[f[k]]] : f \in Permutations(1..Len(s))}

\* The orders in which monitored_events.keys() can give the watched pairs.
KeyOrders(monitored) == Perms(SelectSeq(PairOrder, LAMBDA p : p \in monitored))

\* all_logs as line 183 can find it when the pairs are queried in the order
\* keys: the result of each query, its entries in any order, appended to
\* those of the queries before it.
RECURSIVE ArrivalsIn(_, _, _)
ArrivalsIn(keys, from, to) ==
    IF keys = <<>> THEN {<<>>}
    ELSE {first \o rest : first \in Perms(RangeQuery(Head(keys), from, to)),
                          rest \in ArrivalsIn(Tail(keys), from, to)}

Arrivals(monitored, from, to) ==
    UNION {ArrivalsIn(keys, from, to) : keys \in KeyOrders(monitored)}

\* A sort key that leaves out logIndex.
LogLEByBlock(x, y) == x.blockNumber <= y.blockNumber

\* key of all_logs.sort: (blockNumber, logIndex)
LogLE(x, y) ==
    \/ x.blockNumber < y.blockNumber
    \/ x.blockNumber = y.blockNumber /\ x.logIndex <= y.logIndex

RECURSIVE Insert(_, _)
Insert(x, s) ==
    IF s = <<>> THEN <<x>>
    ELSE IF LogLE(x, Head(s)) THEN <<x>> \o s
    ELSE <<Head(s)>> \o Insert(x, Tail(s))

\* list.sort (stable): the head, which stood before the rest, is put in front
\* of the entries of the sorted rest that have an equal key
RECURSIVE SortLogs(_)
SortLogs(s) == IF s = <<>> THEN <<>> ELSE Insert(Head(s), SortLogs(Tail(s)))

\* Decoder.decode_logs: the logs of watched pairs, input order preserved.
DecodeLogs(ls, monitored) == SelectSeq(ls, LAMBDA l : l.pair \in monitored)

\* EventListener.save_events: every decoded log is handed to its receiver;
\* when resolving or calling the receiver raises (position in raising) the
\* except clause creates a FailedEventLog and the loop goes on.  The create
\* is not protected: when it raises (position failing, 0 when the store
\* takes every record) the exception leaves save_events.  Result: the
\* receiver calls attempted and the failure records created, in order, and
\* whether an exception left save_events.
RECURSIVE SaveEventsFrom(_, _, _, _)
SaveEventsFrom(decoded, raising, failing, k) ==
    IF k > Len(decoded) THEN [calls |-> <<>>, records |-> <<>>, raised |-> FALSE]
    ELSE IF k \in raising /\ k = failing
         THEN [calls |-> <<decoded[k]>>, records |-> <<>>, raised |-> TRUE]
    ELSE LET rest == SaveEventsFrom(decoded, raising, failing, k + 1)
         IN [calls |-> <<decoded[k]>> \o rest.calls,
             records |-> IF k \in raising THEN <<decoded[k]>> \o rest.records
                         ELSE rest.records,
             raised |-> rest.raised]

SaveEvents(decoded, raising, failing) == SaveEventsFrom(decoded, raising, failing, 1)

MaxBlockOf(ls, m) ==
    IF ls = <<>> THEN m
    ELSE LET top == CHOOSE b \in {ls[k].blockNumber : k \in 1..Len(ls)} :
                       \A k \in 1..Len(ls) : ls[k].blockNumber <= b
         IN IF top > m THEN top ELSE m

\* ------------------------------------------------------------ the state

\* A Daemon object built anew instead of read from its row.
RowDefault(c) == [block_number |-> 0, last_error_block_number |-> 0]

\* A Daemon object in memory.
Row(c) == [block_number |-> block_number[c],
           last_error_block_number |-> last_error_block_number[c]]

NoRows == [c \in Chains |-> [block_number |-> 0, last_error_block_number |-> 0]]

\* Values ethereum_logs_batch_size can have on a Daemon row (0 is null).
ConfiguredBatchSizes == 0..MaxBatch

TypeOK ==
    /\ block_number \in [Chains -> 0..MaxHead]
    /\ last_error_block_number \in [Chains -> 0..(MaxHead + 1)]
    /\ monitored_table \in [Pairs -> Chains \cup {0}]
    /\ lock \in BOOLEAN
    /\ update_required \in BOOLEAN
    /\ blockNumber \in 0..MaxHead
    /\ pc \in [Workers -> {"idle", "load", "construct", "execute", "filter_fetch", "check",
                           "refresh", "clear", "iter_fetch", "dispatch", "commit", "done", "except", "release"}]
    /\ status \in [Workers -> BOOLEAN]
    /\ cur \in [Workers -> Chains \cup {0}]
    /\ reloadedAt \in [Workers -> 0..MaxHead]
    /\ handedUpTo \in [Chains -> 0..MaxHead]

\* The state before the first invocation, the node having last reported
\* head h.
InitAtHead(h) ==
    /\ block_number = [c \in Chains |-> 0]
    /\ last_error_block_number = [c \in Chains |-> 0]
    /\ monitored_table = [p \in Pairs |-> CASE p = "A" -> 1 [] p = "B" -> 2 [] OTHER -> 0]
    /\ lock = FALSE
    /\ update_required = FALSE
    /\ blockNumber = h
    /\ pc = [i \in Workers |-> "idle"]
    /\ status = [i \in Workers |-> FALSE]
    /\ daemons = [i \in Workers |-> NoRows]
    /\ cur = [i \in Workers |-> 0]
    /\ monitored_events = [i \in Workers |-> {}]
    /\ ethereum_logs_filter_available = [i \in Workers |-> FALSE]
    /\ ethereum_logs_batch_size = [i \in Workers |-> 0]
    /\ rng = [i \in Workers |-> None]
    /\ pending = [i \in Workers |-> <<>>]
    /\ logs = [i \in Workers |-> <<>>]
    /\ calls = [i \in Workers |-> <<>>]
    /\ records = [i \in Workers |-> <<>>]
    /\ bad = [i \in Workers |-> {}]
    /\ visited = [i \in Workers |-> {}]
    /\ outcome = [i \in Workers |-> "none"]
    /\ failedAt = [i \in Workers |-> 0]
    /\ maxDispatched = [i \in Workers |-> 0]
    /\ startCursor = [i \in Workers |-> 0]
    /\ hd = [i \in Workers |-> 0]
    /\ reloadedAt = [i \in Workers |-> 0]
    /\ handedUpTo = [c \in Chains |-> 0]
    /\ returned = "none"

Init == InitAtHead(0)

\* ------------------------------------------------------- the environment

\* The heads the node can report when asked: it only grows.  blockNumber
\* holds the head as of the latest query.
Heads == blockNumber..MaxHead

\* Every step but the return of an invocation.
NotAReturn == returned' = "none"

\* A MonitoredEvent for pair "C" is registered on chain 1; saving it sets
\* the update key in the cache.
MonitoredEventSaved ==
    /\ monitored_table["C"] = 0
    /\ NotAReturn
    /\ monitored_table' = [monitored_table EXCEPT !["C"] = 1]
    /\ update_required' = TRUE
    /\ UNCHANGED <<block_number, last_error_block_number, lock, blockNumber,
                   locals, history>>
    /\ UNCHANGED trace

\* A MonitoredEvent that exists is saved again (pair "A", its receiver or
\* its name edited): the pairs watched stay the same and the update key is
\* set.
MonitoredEventUpdated ==
    /\ ~update_required
    /\ NotAReturn
    /\ monitored_table' = monitored_table
    /\ update_required' = TRUE
    /\ UNCHANGED <<block_number, last_error_block_number, lock, blockNumber,
                   locals, history, trace>>

\* ------------------------------------------------------------ cache_lock

\* A cache.set in place of cache.add: it succeeds whether the key exists or not.
CacheSet == TRUE

\* cache.add(lock_id, lock_value): adds the key unless it exists.
CacheAdd == ~lock

\* cache_lock, line 24, and the branch of event_listener on the result: an
\* invocation that did not acquire logs and falls through to the finally.
\* When cache.add itself raises, line 24 being before the try, the task
\* ends with nothing read or written: a step that changes no variable.
CacheLockEnter(i) ==
    /\ pc[i] = "idle"
    /\ NotAReturn
    /\ status' = [status EXCEPT ![i] = CacheAdd]
    /\ lock' = TRUE
    /\ pc' = [pc EXCEPT ![i] = IF CacheAdd THEN "load" ELSE "release"]
    /\ outcome' = [outcome EXCEPT ![i] = IF CacheAdd THEN "running" ELSE "skipped"]
    /\ visited' = [visited EXCEPT ![i] = {}]
    /\ UNCHANGED <<block_number, last_error_block_number, monitored_table,
                   update_required, blockNumber, daemons, cur, monitored_events,
                   ethereum_logs_filter_available, ethereum_logs_batch_size,
                   rng, pending, logs, calls, records, bad,
                   failedAt, maxDispatched, startCursor, hd>>
    /\ UNCHANGED trace

\* finally: cache.delete(lock_id), whatever status is.
ReleaseLockAlways(i) == FALSE

\* finally: if status: cache.delete(lock_id)
ReleaseLock(i) == IF status[i] THEN FALSE ELSE lock

\* cache_lock, lines 27-29: the with block is left, normally or by an
\* exception, the finally deletes the key when status is true, and the
\* task returns.
CacheLockExit(i) ==
    /\ pc[i] = "release"
    /\ lock' = ReleaseLock(i)
    /\ pc' = [pc EXCEPT ![i] = "idle"]
    /\ returned' = outcome[i]
    /\ status' = [status EXCEPT ![i] = FALSE]
    /\ outcome' = [outcome EXCEPT ![i] = "none"]
    /\ visited' = [visited EXCEPT ![i] = {}]
    /\ daemons' = [daemons EXCEPT ![i] = NoRows]
    /\ cur' = [cur EXCEPT ![i] = 0]
    /\ UNCHANGED <<block_number, last_error_block_number, monitored_table,
                   update_required, blockNumber, monitored_events,
                   ethereum_logs_filter_available, ethereum_logs_batch_size,
                   rng, pending, logs, calls, records, bad,
                   failedAt, maxDispatched, startCursor, hd>>
    /\ UNCHANGED trace

\* cache_lock, line 29: cache.delete(lock_id) raises in the finally (the
\* cache cannot be reached).  Nothing protects the call: the key is not
\* removed and the exception leaves the task, whatever way the with block
\* was left.  Only an invocation whose status is true calls cache.delete.
CacheLockExitRaises(i) ==
    /\ pc[i] = "release"
    /\ status[i]
    /\ lock' = lock
    /\ pc' = [pc EXCEPT ![i] = "idle"]
    /\ returned' = "escaped"
    /\ status' = [status EXCEPT ![i] = FALSE]
    /\ outcome' = [outcome EXCEPT ![i] = "none"]
    /\ visited' = [visited EXCEPT ![i] = {}]
    /\ daemons' = [daemons EXCEPT ![i] = NoRows]
    /\ cur' = [cur EXCEPT ![i] = 0]
    /\ UNCHANGED <<block_number, last_error_block_number, monitored_table,
                   update_required, blockNumber, monitored_events,
                   ethereum_logs_filter_available, ethereum_logs_batch_size,
                   rng, pending, logs, calls, records, bad,
                   failedAt, maxDispatched, startCursor, hd>>
    /\ UNCHANGED trace

\* ------------------------------------------------------- event_listener

\* for daemon in Daemon.objects.all(): the rows are read once, when the
\* loop starts.
LoadDaemons(i) ==
    /\ pc[i] = "load"
    /\ NotAReturn
    /\ daemons' = [daemons EXCEPT ![i] = [c \in Chains |-> Row(c)]]
    /\ cur' = [cur EXCEPT ![i] = 1]
    /\ pc' = [pc EXCEPT ![i] = "construct"]
    /\ UNCHANGED <<shared, status, monitored_events, ethereum_logs_filter_available,
                   ethereum_logs_batch_size, rng, pending, logs, calls, records, bad,
                   history>>
    /\ UNCHANGED trace

\* The locals of one chain's processing, cleared.
ChainLocalsCleared(i) ==
    /\ monitored_events' = [monitored_events EXCEPT ![i] = {}]
    /\ ethereum_logs_filter_available' = [ethereum_logs_filter_available EXCEPT ![i] = FALSE]
    /\ ethereum_logs_batch_size' = [ethereum_logs_batch_size EXCEPT ![i] = 0]
    /\ rng' = [rng EXCEPT ![i] = None]
    /\ pending' = [pending EXCEPT ![i] = <<>>]
    /\ logs' = [logs EXCEPT ![i] = <<>>]
    /\ calls' = [calls EXCEPT ![i] = <<>>]
    /\ records' = [records EXCEPT ![i] = <<>>]
    /\ bad' = [bad EXCEPT ![i] = {}]
    /\ failedAt' = [failedAt EXCEPT ![i] = 0]
    /\ maxDispatched' = [maxDispatched EXCEPT ![i] = 0]
    /\ startCursor' = [startCursor EXCEPT ![i] = 0]
    /\ hd' = [hd EXCEPT ![i] = 0]
    /\ reloadedAt' = [reloadedAt EXCEPT ![i] = 0]

\* EventListener.__init__ returns: the decoder table is loaded for the
\* chain and the strategy and batch size are read from the Daemon row or
\* the settings.
Construct(i) ==
    /\ pc[i] = "construct"
    /\ NotAReturn
    /\ \E filter \in BOOLEAN, configured \in ConfiguredBatchSizes :
         /\ ethereum_logs_filter_available' =
                [ethereum_logs_filter_available EXCEPT ![i] = filter]
         /\ ethereum_logs_batch_size' =
                [ethereum_logs_batch_size EXCEPT ![i] = BatchSize(configured)]
    /\ monitored_events' = [monitored_events EXCEPT ![i] = WatchedBy(cur[i])]
    /\ visited' = [visited EXCEPT ![i] = @ \cup {cur[i]}]
    /\ startCursor' = [startCursor EXCEPT ![i] = block_number[cur[i]]]
    /\ pc' = [pc EXCEPT ![i] = "execute"]
    /\ UNCHANGED <<shared, status, daemons, cur, rng, pending, logs, calls, records, bad,
                   outcome, failedAt, maxDispatched, hd>>
    /\ UNCHANGED trace

\* Where an exception that is raised outside the try of the loop body goes:
\* out of the for loop and the with block, into the finally of cache_lock.
Escapes(i) ==
    /\ pc' = [pc EXCEPT ![i] = "release"]
    /\ outcome' = [outcome EXCEPT ![i] = "escaped"]

\* Daemon.objects.all() raises when the for loop evaluates it (the database
\* cannot be reached): line 51 of tasks.py is outside the try, so the
\* exception leaves the with block before any chain is visited.
LoadDaemonsRaises(i) ==
    /\ pc[i] = "load"
    /\ NotAReturn
    /\ Escapes(i)
    /\ UNCHANGED <<shared, status, daemons, cur, monitored_events,
                   ethereum_logs_filter_available, ethereum_logs_batch_size,
                   rng, pending, logs, calls, records, bad,
                   visited, failedAt, maxDispatched, startCursor, hd>>
    /\ UNCHANGED trace

\* EventListener.__init__ raises (the Decoder or the Web3Service cannot be
\* built): line 52 of tasks.py is outside the try.
ConstructRaises(i) ==
    /\ pc[i] = "construct"
    /\ NotAReturn
    /\ Escapes(i)
    /\ visited' = [visited EXCEPT ![i] = @ \cup {cur[i]}]
    /\ UNCHANGED <<shared, status, daemons, cur, monitored_events,
                   ethereum_logs_filter_available, ethereum_logs_batch_size,
                   rng, pending, logs, calls, records, bad,
                   failedAt, maxDispatched, startCursor, hd>>
    /\ UNCHANGED trace

\* _execute_using_filters line 167 / get_pending_blocks line 61: the range
\* is resolved against the head the node reports now.
ResolveRange(i) ==
    /\ pc[i] = "execute"
    /\ NotAReturn
    /\ \E current \in Heads :
         LET c == cur[i]
             r == GetBlockRange(daemons[i][c].block_number, current,
                                ethereum_logs_batch_size[i])
         IN /\ blockNumber' = current
            /\ rng' = [rng EXCEPT ![i] = r]
            /\ hd' = [hd EXCEPT ![i] = current]
            /\ IF ethereum_logs_filter_available[i]
               THEN /\ pending' = pending
                    /\ pc' = [pc EXCEPT ![i] = IF r = None THEN "done" ELSE "filter_fetch"]
               ELSE /\ pending' = [pending EXCEPT ![i] = GetPendingBlocks(r)]
                    /\ pc' = [pc EXCEPT ![i] = IF GetPendingBlocks(r) = <<>>
                                               THEN "done" ELSE "check"]
    /\ UNCHANGED <<block_number, last_error_block_number, monitored_table, lock,
                   update_required, status, daemons, cur, monitored_events,
                   ethereum_logs_filter_available, ethereum_logs_batch_size,
                   logs, calls, records, bad,
                   visited, outcome, failedAt, maxDispatched, startCursor>>
    /\ UNCHANGED trace

\* The exception of execute() is caught by the except of the loop body.
Caught(i) == pc' = [pc EXCEPT ![i] = "except"]

\* web3.eth.blockNumber raises.
ResolveRangeRaises(i) ==
    /\ pc[i] = "execute"
    /\ NotAReturn
    /\ Caught(i)
    /\ UNCHANGED <<shared, status, daemons, cur, monitored_events,
                   ethereum_logs_filter_available, ethereum_logs_batch_size,
                   rng, pending, logs, calls, records, bad, history>>
    /\ UNCHANGED trace

\* _execute_using_filters, lines 170-185: one query per watched pair, then
\* sort and decode.
FilterFetch(i) ==
    /\ pc[i] = "filter_fetch"
    /\ NotAReturn
    /\ \E all_logs \in Arrivals(monitored_events[i], rng[i][1], rng[i][2]) :
         logs' = [logs EXCEPT ![i] = DecodeLogs(SortLogs(all_logs), monitored_events[i])]
    /\ pc' = [pc EXCEPT ![i] = "dispatch"]
    /\ UNCHANGED <<shared, status, daemons, cur, monitored_events,
                   ethereum_logs_filter_available, ethereum_logs_batch_size,
                   rng, pending, calls, records, bad, history>>
    /\ UNCHANGED trace

\* getLogs or get_all_entries raises for some pair.
FilterFetchRaises(i) ==
    /\ pc[i] = "filter_fetch"
    /\ NotAReturn
    /\ Caught(i)
    /\ failedAt' = [failedAt EXCEPT ![i] = rng[i][1]]
    /\ UNCHANGED <<shared, status, daemons, cur, monitored_events,
                   ethereum_logs_filter_available, ethereum_logs_batch_size,
                   rng, pending, logs, calls, records, bad,
                   visited, outcome, maxDispatched, startCursor, hd>>
    /\ UNCHANGED trace

\* EventListener.check_for_state_updates(block), line 153: the update key
\* is read from the cache; when it is not set the gate is done.
CheckForStateUpdates(i) ==
    /\ pc[i] = "check"
    /\ NotAReturn
    /\ pc' = [pc EXCEPT ![i] = IF update_required THEN "refresh" ELSE "iter_fetch"]
    /\ UNCHANGED <<shared, status, daemons, cur, monitored_events,
                   ethereum_logs_filter_available, ethereum_logs_batch_size,
                   rng, pending, logs, calls, records, bad, history>>
    /\ UNCHANGED trace

\* An exception leaves check_for_state_updates before block
\* Head(pending[i]) is fetched: the gate has no try, so the exception goes
\* through execute() to the except of the task.  The scan of the block has
\* failed, nothing is written.
GateRaises(i) ==
    /\ NotAReturn
    /\ Caught(i)
    /\ failedAt' = [failedAt EXCEPT ![i] = Head(pending[i])]
    /\ UNCHANGED <<shared, status, daemons, cur, monitored_events,
                   ethereum_logs_filter_available, ethereum_logs_batch_size,
                   rng, pending, logs, calls, records, bad,
                   visited, outcome, maxDispatched, startCursor, hd>>
    /\ UNCHANGED trace

\* check_for_state_updates, line 153: cache.get raises.
CheckForStateUpdatesRaises(i) ==
    /\ pc[i] = "check"
    /\ GateRaises(i)

\* check_for_state_updates, line 155: self.decoder.refresh_state(block)
\* raises; the table is not reloaded and the key stays set.
RefreshStateRaises(i) ==
    /\ pc[i] = "refresh"
    /\ GateRaises(i)

\* check_for_state_updates, line 156: refresh_cache_update_value(False)
\* raises after the table was reloaded; the key stays set.
RefreshCacheUpdateValueRaises(i) ==
    /\ pc[i] = "clear"
    /\ GateRaises(i)

\* The table of the decoder after refresh_state(block_number): the watched
\* pairs of the chain as the MonitoredEvent table has them now.
RefreshedTable(i) == WatchedBy(cur[i])

\* check_for_state_updates, line 155: self.decoder.refresh_state(block)
RefreshState(i) ==
    /\ pc[i] = "refresh"
    /\ NotAReturn
    /\ monitored_events' = [monitored_events EXCEPT ![i] = RefreshedTable(i)]
    /\ reloadedAt' = [reloadedAt EXCEPT ![i] = Head(pending[i])]
    /\ pc' = [pc EXCEPT ![i] = "clear"]
    /\ UNCHANGED <<shared, status, daemons, cur,
                   ethereum_logs_filter_available, ethereum_logs_batch_size,
                   rng, pending, logs, calls, records, bad, history, handedUpTo>>

\* The value refresh_cache_update_value writes when the gate forgets to
\* clear the key.
UpdateValueKept == update_required

\* The value written by refresh_cache_update_value(update_required=False).
UpdateValueCleared == FALSE

\* check_for_state_updates, line 156: refresh_cache_update_value(False)
RefreshCacheUpdateValue(i) ==
    /\ pc[i] = "clear"
    /\ NotAReturn
    /\ update_required' = UpdateValueCleared
    /\ pc' = [pc EXCEPT ![i] = "iter_fetch"]
    /\ UNCHANGED <<block_number, last_error_block_number, monitored_table, lock,
                   blockNumber, status, daemons, cur, monitored_events,
                   ethereum_logs_filter_available, ethereum_logs_batch_size,
                   rng, pending, logs, calls, records, bad, history, trace>>

\* get_block_logs(block) returns, then decode_logs: received are the
\* transactions whose receipt the node returns.
IterFetch(i) ==
    /\ pc[i] = "iter_fetch"
    /\ NotAReturn
    /\ \E received \in SUBSET TxIndexes :
         logs' = [logs EXCEPT ![i] =
                    DecodeLogs(GetBlockLogs(Head(pending[i]), received, monitored_events[i]),
                               monitored_events[i])]
    /\ pc' = [pc EXCEPT ![i] = "dispatch"]
    /\ UNCHANGED <<shared, status, daemons, cur, monitored_events,
                   ethereum_logs_filter_available, ethereum_logs_batch_size,
                   rng, pending, calls, records, bad, history>>
    /\ UNCHANGED trace

\* get_block_logs(block) raises: UnknownBlock, or getBlock or
\* getTransactionReceipt fails.
IterFetchRaises(i) ==
    /\ pc[i] = "iter_fetch"
    /\ NotAReturn
    /\ Caught(i)
    /\ failedAt' = [failedAt EXCEPT ![i] = Head(pending[i])]
    /\ UNCHANGED <<shared, status, daemons, cur, monitored_events,
                   ethereum_logs_filter_available, ethereum_logs_batch_size,
                   rng, pending, logs, calls, records, bad,
                   visited, outcome, maxDispatched, startCursor, hd>>
    /\ UNCHANGED trace

\* update_block_number called with the first block of the unit.
CommitBlockFirst(i) == IF ethereum_logs_filter_available[i] THEN rng[i][1] ELSE Head(pending[i])

\* The block update_block_number is called with: end under the filter
\* strategy, the block just dispatched under the iteration strategy.
CommitBlock(i) == IF ethereum_logs_filter_available[i] THEN rng[i][2] ELSE Head(pending[i])

\* The sets of positions of a batch whose receiver may raise.
RaisingSets(n) == {r \in SUBSET (1..n) : Cardinality(r) <= MaxRaise}

\* The receivers of a batch that raise when FailedEventLog.objects.create
\* raises for the receiver at position failing: the receivers after it are
\* never called, so failing is the last position that raises.
RaisingSetsUpTo(n, failing) ==
    {r \in RaisingSets(n) : failing \in r /\ \A k \in r : k <= failing}

\* save_events(decoded_logs) with the given raising receivers and failing
\* create.
SaveEventsCalled(i, raising, failing) ==
    LET res == SaveEvents(logs[i], raising, failing)
    IN /\ bad' = [bad EXCEPT ![i] = raising]
       /\ calls' = [calls EXCEPT ![i] = res.calls]
       /\ records' = [records EXCEPT ![i] = res.records]
       /\ maxDispatched' = [maxDispatched EXCEPT ![i] = MaxBlockOf(res.calls, @)]
       /\ pc' = [pc EXCEPT ![i] = IF res.raised THEN "except" ELSE "commit"]

\* save_events(decoded_logs) when the store refuses a failure record: the
\* exception of the create leaves save_events and execute().  As in
\* RecordErrorRaises, the history of the receivers restarts from the
\* persisted cursor when the store fails.
DispatchRaises(i) ==
    /\ pc[i] = "dispatch"
    /\ NotAReturn
    /\ \E failing \in 1..Len(logs[i]) :
         \E raising \in RaisingSetsUpTo(Len(logs[i]), failing) :
            SaveEventsCalled(i, raising, failing)
    /\ handedUpTo' = [handedUpTo EXCEPT ![cur[i]] = Min(@, block_number[cur[i]])]
    /\ UNCHANGED <<shared, status, daemons, cur, monitored_events,
                   ethereum_logs_filter_available, ethereum_logs_batch_size,
                   rng, pending, logs,
                   visited, outcome, failedAt, startCursor, hd>>
    /\ reloadedAt' = [reloadedAt EXCEPT ![i] = 0]

\* save_events(decoded_logs)
Dispatch(i) ==
    /\ pc[i] = "dispatch"
    /\ NotAReturn
    /\ \E raising \in RaisingSets(Len(logs[i])) :
         SaveEventsCalled(i, raising, 0)
    /\ handedUpTo' = [handedUpTo EXCEPT ![cur[i]] = IF CommitBlock(i) > @
                                                     THEN CommitBlock(i) ELSE @]
    /\ UNCHANGED <<shared, status, daemons, cur, monitored_events,
                   ethereum_logs_filter_available, ethereum_logs_batch_size,
                   rng, pending, logs,
                   visited, outcome, failedAt, startCursor, hd>>
    /\ reloadedAt' = [reloadedAt EXCEPT ![i] = 0]

\* A save that is not confined to the row of the object: an update of the
\* whole Daemon table.
SavedAllRows(c, d) ==
    /\ block_number' = [x \in Chains |-> d.block_number]
    /\ last_error_block_number' =
            [x \in Chains |-> d.last_error_block_number]

\* daemon.save(): the row takes the values of the object in memory.
Saved(c, d) ==
    /\ block_number' = [block_number EXCEPT ![c] = d.block_number]
    /\ last_error_block_number' =
            [last_error_block_number EXCEPT ![c] = d.last_error_block_number]

\* update_block_number(block), and what follows it in the loop.
UpdateBlockNumber(i) ==
    /\ pc[i] = "commit"
    /\ NotAReturn
    /\ LET c == cur[i]
           d == [daemons[i][c] EXCEPT !.block_number = CommitBlock(i)]
           rest == IF ethereum_logs_filter_available[i] THEN <<>> ELSE Tail(pending[i])
       IN /\ daemons' = [daemons EXCEPT ![i][c] = d]
          /\ Saved(c, d)
          /\ pending' = [pending EXCEPT ![i] = rest]
          /\ pc' = [pc EXCEPT ![i] = IF rest = <<>> THEN "done" ELSE "check"]
    /\ logs' = [logs EXCEPT ![i] = <<>>]
    /\ calls' = [calls EXCEPT ![i] = <<>>]
    /\ records' = [records EXCEPT ![i] = <<>>]
    /\ bad' = [bad EXCEPT ![i] = {}]
    /\ UNCHANGED <<monitored_table, lock, update_required, blockNumber, status, cur,
                   monitored_events, ethereum_logs_filter_available,
                   ethereum_logs_batch_size, rng, history>>
    /\ UNCHANGED trace

\* update_block_number(block) when daemon.save() raises: the object in
\* memory has the new block number, the row has not.
UpdateBlockNumberRaises(i) ==
    /\ pc[i] = "commit"
    /\ NotAReturn
    /\ daemons' = [daemons EXCEPT ![i][cur[i]].block_number = CommitBlock(i)]
    /\ Caught(i)
    /\ logs' = [logs EXCEPT ![i] = <<>>]
    /\ calls' = [calls EXCEPT ![i] = <<>>]
    /\ records' = [records EXCEPT ![i] = <<>>]
    /\ bad' = [bad EXCEPT ![i] = {}]
    /\ UNCHANGED <<shared, status, cur, monitored_events,
                   ethereum_logs_filter_available, ethereum_logs_batch_size,
                   rng, pending, history>>
    /\ UNCHANGED trace

\* The for loop goes to the next Daemon, or ends.
Advance(i) ==
    /\ cur' = [cur EXCEPT ![i] = IF @ = LastChain THEN 0 ELSE @ + 1]
    /\ pc' = [pc EXCEPT ![i] = IF cur[i] = LastChain THEN "release" ELSE "construct"]
    /\ outcome' = [outcome EXCEPT ![i] = IF cur[i] = LastChain THEN "normal" ELSE @]

\* execute() returned.
NextDaemon(i) ==
    /\ pc[i] = "done"
    /\ NotAReturn
    /\ Advance(i)
    /\ ChainLocalsCleared(i)
    /\ UNCHANGED <<shared, status, daemons, visited>>
    /\ UNCHANGED handedUpTo

\* The except of the loop body without the + 1.
ErrorRowNoIncrement(d) == [d EXCEPT !.last_error_block_number = d.block_number]

\* The except of the loop body assigning to block_number.
ErrorRowWrongField(d) == [d EXCEPT !.block_number = d.block_number + 1]

\* The except of the loop body, lines 60-62 of tasks.py.
ErrorRow(d) == [d EXCEPT !.last_error_block_number = d.block_number + 1]

RecordError(i) ==
    /\ pc[i] = "except"
    /\ NotAReturn
    /\ LET c == cur[i]
           d == ErrorRow(daemons[i][c])
       IN /\ daemons' = [daemons EXCEPT ![i][c] = d]
          /\ Saved(c, d)
    /\ Advance(i)
    /\ ChainLocalsCleared(i)
    /\ UNCHANGED <<monitored_table, lock, update_required, blockNumber, status,
                   visited>>
    /\ UNCHANGED handedUpTo

\* daemon.save() raises inside the except: the exception leaves the loop.
\* The history of the receivers is kept for as long as the store records
\* the position of every run: here it restarts from the persisted cursor.
RecordErrorRaises(i) ==
    /\ pc[i] = "except"
    /\ NotAReturn
    /\ daemons' = [daemons EXCEPT ![i][cur[i]] = ErrorRow(@)]
    /\ Escapes(i)
    /\ ChainLocalsCleared(i)
    /\ UNCHANGED <<shared, status, cur, visited>>
    /\ handedUpTo' = [handedUpTo EXCEPT ![cur[i]] = Min(@, block_number[cur[i]])]

Next ==
    \/ MonitoredEventSaved
    \/ \E i \in Workers :
         \/ CacheLockEnter(i)
         \/ LoadDaemons(i)
         \/ LoadDaemonsRaises(i)
         \/ Construct(i)
         \/ ConstructRaises(i)
         \/ ResolveRange(i)
         \/ ResolveRangeRaises(i)
         \/ FilterFetch(i)
         \/ FilterFetchRaises(i)
         \/ CheckForStateUpdates(i)
         \/ CheckForStateUpdatesRaises(i)
         \/ RefreshState(i)
         \/ RefreshStateRaises(i)
         \/ RefreshCacheUpdateValue(i)
         \/ RefreshCacheUpdateValueRaises(i)
         \/ IterFetch(i)
         \/ IterFetchRaises(i)
         \/ Dispatch(i)
         \/ DispatchRaises(i)
         \/ UpdateBlockNumber(i)
         \/ UpdateBlockNumberRaises(i)
         \/ NextDaemon(i)
         \/ RecordError(i)
         \/ RecordErrorRaises(i)
         \/ CacheLockExit(i)
         \/ CacheLockExitRaises(i)

Spec == Init /\ [][Next]_vars

\* One step of the invocation of worker i.
Run(i) ==
    \/ CacheLockEnter(i)
    \/ LoadDaemons(i)
    \/ LoadDaemonsRaises(i)
    \/ Construct(i)
    \/ ConstructRaises(i)
    \/ ResolveRange(i)
    \/ ResolveRangeRaises(i)
    \/ FilterFetch(i)
    \/ FilterFetchRaises(i)
    \/ CheckForStateUpdates(i)
    \/ CheckForStateUpdatesRaises(i)
    \/ RefreshState(i)
    \/ RefreshStateRaises(i)
    \/ RefreshCacheUpdateValue(i)
    \/ RefreshCacheUpdateValueRaises(i)
    \/ IterFetch(i)
    \/ IterFetchRaises(i)
    \/ Dispatch(i)
    \/ DispatchRaises(i)
    \/ UpdateBlockNumber(i)
    \/ UpdateBlockNumberRaises(i)
    \/ NextDaemon(i)
    \/ RecordError(i)
    \/ RecordErrorRaises(i)
    \/ CacheLockExit(i)
    \/ CacheLockExitRaises(i)

\* The gate of the iteration strategy against the writers of the
\* MonitoredEvent table: one worker runs the task while events are
\* registered and edited.
NextGate ==
    \/ MonitoredEventSaved
    \/ MonitoredEventUpdated
    \/ \E i \in {1} : Run(i)

SpecGate == Init /\ [][NextGate]_vars

\* One step of the invocation of worker i when the database, the cache
\* (the key of the lock and the gate of the watch-list), the decoder and
\* the construction of the listener do not fail: the failures left are
\* those of the node (head, queries, blocks, receipts) and of the
\* receivers.
RunStoreWorks(i) ==
    \/ CacheLockEnter(i)
    \/ LoadDaemons(i)
    \/ Construct(i)
    \/ ResolveRange(i)
    \/ ResolveRangeRaises(i)
    \/ FilterFetch(i)
    \/ FilterFetchRaises(i)
    \/ CheckForStateUpdates(i)
    \/ RefreshState(i)
    \/ RefreshCacheUpdateValue(i)
    \/ IterFetch(i)
    \/ IterFetchRaises(i)
    \/ Dispatch(i)
    \/ UpdateBlockNumber(i)
    \/ NextDaemon(i)
    \/ RecordError(i)
    \/ CacheLockExit(i)

NextFetchFailures ==
    \/ MonitoredEventSaved
    \/ \E i \in Workers : RunStoreWorks(i)

SpecFetchFailures == Init /\ [][NextFetchFailures]_vars

\* One step of the invocation of worker i when the node answers every
\* request and the watch-list is left alone, so that the gate never finds
\* the update key set: the database (the read of the Daemon rows, the
\* creation of a failure record, the save of the cursor), the cache (the
\* read of the update key, the delete of the lock), the construction of
\* the listener and the receivers can still fail.
RunNodeAnswers(i) ==
    \/ CacheLockEnter(i)
    \/ LoadDaemons(i)
    \/ LoadDaemonsRaises(i)
    \/ Construct(i)
    \/ ConstructRaises(i)
    \/ ResolveRange(i)
    \/ FilterFetch(i)
    \/ CheckForStateUpdates(i)
    \/ CheckForStateUpdatesRaises(i)
    \/ IterFetch(i)
    \/ Dispatch(i)
    \/ DispatchRaises(i)
    \/ UpdateBlockNumber(i)
    \/ UpdateBlockNumberRaises(i)
    \/ NextDaemon(i)
    \/ RecordError(i)
    \/ RecordErrorRaises(i)
    \/ CacheLockExit(i)
    \/ CacheLockExitRaises(i)

\* The invocations come one after the other, so each finds the lock as the
\* one before left it: free, unless cache.delete raised.  The head of the
\* chain stays at MaxHead.  Nothing is assumed about how often the task is
\* invoked or about which of its steps succeed.
NextProgress == \E i \in {1} : RunNodeAnswers(i)

SpecProgress == InitAtHead(MaxHead) /\ [][NextProgress]_vars

\* The key of the lock in a backend that drops it when the process that
\* added it is gone.
KeyDroppedWithHolder == FALSE

\* The key of the lock after the process that added it is gone: cache.add
\* passed no timeout and the backend is taken to set none, so the key stays
\* as it is.
KeyKept == lock

\* The process that runs the invocation of worker i is terminated (killed,
\* out of memory, host lost): nothing more of the task is executed, the
\* finally of cache_lock included.  What it wrote to the database and the
\* cache stays; the worker comes back as a new process.
Terminate(i) ==
    /\ pc[i] # "idle"
    /\ NotAReturn
    /\ pc' = [pc EXCEPT ![i] = "idle"]
    /\ status' = [status EXCEPT ![i] = FALSE]
    /\ outcome' = [outcome EXCEPT ![i] = "none"]
    /\ visited' = [visited EXCEPT ![i] = {}]
    /\ daemons' = [daemons EXCEPT ![i] = NoRows]
    /\ cur' = [cur EXCEPT ![i] = 0]
    /\ ChainLocalsCleared(i)
    /\ lock' = KeyKept
    /\ UNCHANGED <<block_number, last_error_block_number, monitored_table,
                   update_required, blockNumber, handedUpTo>>

\* The task on hosts whose processes can be terminated.
NextCrash ==
    \/ Next
    \/ \E i \in Workers : Terminate(i)

SpecCrash == Init /\ [][NextCrash]_vars

\* ------------------------------------------------------------ properties

InRun(i) == pc[i] # "idle"
Holder(i) == status[i] /\ InRun(i)
Processing == {"load", "construct", "execute", "filter_fetch", "check", "refresh",
               "clear", "iter_fetch",
               "dispatch", "commit", "done", "except"}
\* The positions at which the range of the current chain has been resolved.
Resolved(i) == pc[i] \in {"filter_fetch", "check", "refresh", "clear", "iter_fetch",
                          "dispatch", "commit", "done"}

\* C1: the persisted cursor of every chain never decreases, whatever step is
\* taken: a commit, an error record, a skipped or an aborted run.
C1_CursorMonotone ==
    [][\A c \in Chains : block_number'[c] >= block_number[c]]_vars

\* A cursor has advanced beyond a position at which an error was recorded,
\* and an invocation has just been skipped.
C1_Witness ==
    /\ returned = "skipped"
    /\ \E c \in Chains : /\ last_error_block_number[c] > 0
                         /\ block_number[c] >= last_error_block_number[c]

\* C2 as claimed: a resolved range starts at cursor + 1 and ends at
\* min(head, from + batch_size - 1).
C2_RangeAsClaimed ==
    \A i \in Workers :
        (Resolved(i) /\ rng[i] # None) =>
            /\ rng[i][1] = startCursor[i] + 1
            /\ rng[i][2] = Min(hd[i], rng[i][1] + ethereum_logs_batch_size[i] - 1)

\* C3: a resolved range lies strictly above the cursor and at most at the
\* head observed; nothing is pending exactly when cursor >= head, and then
\* the chain's run dispatches nothing and leaves the cursor where it was.
C3_RangeWithinHead ==
    \A i \in Workers :
        Resolved(i) =>
            /\ rng[i] # None =>
                   /\ startCursor[i] < rng[i][1]
                   /\ rng[i][1] <= rng[i][2]
                   /\ rng[i][2] <= hd[i]
            /\ (rng[i] = None) <=> (startCursor[i] >= hd[i])
            /\ rng[i] = None =>
                   /\ pc[i] = "done"
                   /\ maxDispatched[i] = 0
                   /\ calls[i] = <<>>
                   /\ block_number[cur[i]] = startCursor[i]
                   /\ daemons[i][cur[i]].block_number = startCursor[i]

\* A chain whose cursor has reached a head of at least 2 finds nothing pending.
C3_Witness ==
    \E i \in Workers :
        /\ pc[i] = "done"
        /\ rng[i] = None
        /\ hd[i] >= 2
        /\ startCursor[i] = hd[i]

\* The number of times x occurs in sequence s.
Count(x, s) == Cardinality({k \in 1..Len(s) : s[k] = x})

\* C4 as claimed: after save_events, every event of the batch has had one
\* receiver call, in batch order; every event whose receiver raised has
\* exactly one failure record and no other event has one; and no exception
\* ever comes out of save_events.
C4_HandlerIsolation ==
    \A i \in Workers :
        /\ pc[i] = "commit" =>
               /\ calls[i] = logs[i]
               /\ Len(records[i]) = Cardinality(bad[i])
               /\ \A k \in 1..Len(logs[i]) :
                      Count(logs[i][k], records[i]) = IF k \in bad[i] THEN 1 ELSE 0
        /\ pc[i] = "except" => (bad[i] = {} /\ calls[i] = <<>>)

\* C5: at most one invocation holds the lock, only a holder processes
\* chains, and an invocation that did not acquire goes straight to its
\* return without visiting a chain.
C5_MutualExclusion ==
    /\ Cardinality({i \in Workers : Holder(i)}) <= 1
    /\ \A i \in Workers :
           /\ pc[i] \in Processing => status[i]
           /\ (InRun(i) /\ ~status[i]) =>
                  /\ pc[i] = "release"
                  /\ visited[i] = {}
                  /\ cur[i] = 0
                  /\ calls[i] = <<>>

\* One invocation is dispatching while another found the lock held.
C5_Witness ==
    \E i, j \in Workers :
        /\ pc[i] = "commit"
        /\ calls[i] # <<>>
        /\ pc[j] = "release"
        /\ ~status[j]

\* C6: while the invocation that acquired the lock is running, the lock is
\* held: nobody else clears it.
C6_OnlyHolderReleases ==
    (\E i \in Workers : Holder(i)) => lock

\* A skipped invocation has returned and the holder is still processing.
C6_Witness ==
    /\ returned = "skipped"
    /\ lock
    /\ \E i \in Workers : Holder(i) /\ pc[i] \in Processing

\* C7 as claimed: the lock is held only while the invocation that acquired
\* it is running: once that invocation has returned, however it ended, the
\* lock is free.
C7_HolderAlwaysReleases ==
    lock => \E i \in Workers : Holder(i)

\* C8 as claimed: a run that acquired the lock enters the loop body for
\* every configured chain before it ends.
C8_AllChainsProcessed ==
    \A i \in Workers :
        (pc[i] = "release" /\ status[i]) => visited[i] = Chains

\* The step of worker i that ends the except clause with the row saved.
ErrorRecorded(i) ==
    /\ pc[i] = "except"
    /\ pc'[i] # "except"
    /\ outcome'[i] # "escaped"

\* C9 as claimed: when the error position is recorded, last_error_block is
\* the cursor persisted at the moment of failure plus one.
C9_ErrorAtPersistedCursor ==
    [][\A i \in Workers :
         ErrorRecorded(i) =>
            last_error_block_number'[cur[i]] = block_number[cur[i]] + 1]_vars

\* C9 amended: when the error position is recorded, last_error_block is
\* the cursor of the object in memory plus one, which is the cursor
\* persisted by that same save plus one; unless it was the save of
\* update_block_number that raised, it is also the cursor persisted at the
\* moment of failure plus one, and after a failed fetch it is the block
\* whose scan failed (iteration) or the first block of the range (filter).
C9_ErrorPosition ==
    [][\A i \in Workers :
         ErrorRecorded(i) =>
            LET c == cur[i] IN
            /\ last_error_block_number'[c] = daemons[i][c].block_number + 1
            /\ last_error_block_number'[c] = block_number'[c] + 1
            /\ daemons[i][c].block_number = block_number[c] =>
                   last_error_block_number'[c] = block_number[c] + 1
            /\ failedAt[i] # 0 =>
                   /\ last_error_block_number'[c] = failedAt[i]
                   /\ block_number[c] + 1 = failedAt[i]]_vars

\* An error is on record right after a cursor that has advanced.
C9_Witness ==
    \E c \in Chains :
        /\ block_number[c] >= 1
        /\ last_error_block_number[c] = block_number[c] + 1

\* C10: when the fetch of block b fails under the iteration strategy the
\* cursor, persisted and in memory, is b - 1 and nothing of block b or later
\* has been dispatched; the error record that follows leaves the cursor at
\* b - 1 and ends the chain's processing; the cursor of a chain changes only
\* in a commit of that chain (or in the error record after a failed commit);
\* and every range that is resolved starts at the persisted cursor + 1.
C10_FetchFailure ==
    [][/\ \A i \in Workers :
            LET c == cur[i] IN
            /\ (pc[i] = "iter_fetch" /\ pc'[i] = "except") =>
                   /\ failedAt'[i] = Head(pending[i])
                   /\ block_number'[c] = Head(pending[i]) - 1
                   /\ daemons'[i][c].block_number = Head(pending[i]) - 1
                   /\ maxDispatched'[i] < Head(pending[i])
            /\ (pc[i] = "except" /\ failedAt[i] # 0 /\ pc'[i] # "except") =>
                   /\ block_number'[c] = failedAt[i] - 1
                   /\ pc'[i] \in {"construct", "release"}
            /\ (pc[i] = "execute" /\ Resolved(i)' /\ rng'[i] # None) =>
                   rng'[i][1] = block_number[c] + 1
       /\ \A c \in Chains :
            block_number'[c] # block_number[c] =>
                \E i \in Workers :
                    /\ cur[i] = c
                    /\ \/ pc[i] = "commit"
                       \/ pc[i] = "except" /\ failedAt[i] = 0]_vars

\* The fetch of a block fails after events of the block before it were
\* dispatched and committed.
C10_Witness ==
    \E i \in Workers :
        /\ pc[i] = "except"
        /\ ~ethereum_logs_filter_available[i]
        /\ failedAt[i] >= 2
        /\ maxDispatched[i] = failedAt[i] - 1
        /\ block_number[cur[i]] = failedAt[i] - 1

\* The positions of the iteration strategy at which a block is being
\* processed: Head(pending) is that block.
InBlock(i) == pc[i] \in {"check", "refresh", "clear", "iter_fetch", "dispatch", "commit"}

\* The logs of block b that a decoder table matches, in block order.
MatchingLogs(b, monitored) == DecodeLogs(Flatten(Block(b)), monitored)

\* C11 as claimed: under the iteration strategy the pending blocks are
\* taken in ascending order; the cursor is persisted as b - 1 whenever block
\* b is being processed, so b is committed before b + 1 is fetched; and when
\* the dispatch of block b is complete all the logs of b that match, and no
\* others, have been handed to their receivers.
C11_PerBlockCommit ==
    \A i \in Workers :
        (InBlock(i) /\ ~ethereum_logs_filter_available[i]) =>
            LET b == Head(pending[i]) IN
            /\ \A k \in 1..Len(pending[i]) : pending[i][k] = b + k - 1
            /\ block_number[cur[i]] = b - 1
            /\ daemons[i][cur[i]].block_number = b - 1
            /\ maxDispatched[i] < b \/ pc[i] = "commit"
            /\ pc[i] = "commit" => calls[i] = MatchingLogs(b, monitored_events[i])

\* C12: under the filter strategy the cursor of the chain stays at its
\* value of the start of the run while the queries and the dispatch go on;
\* it is written once, to the end of the range, at a moment when every
\* query has returned and every decoded event has had its receiver called,
\* whether receivers raised or not; when a query raises nothing has been
\* dispatched and the cursor is left as it was, also by the error record.
C12_WholeBatchCommit ==
    [][\A i \in Workers :
         ethereum_logs_filter_available[i] =>
            LET c == cur[i] IN
            /\ pc[i] \in {"filter_fetch", "dispatch"} =>
                   /\ block_number[c] = startCursor[i]
                   /\ block_number'[c] = block_number[c]
            /\ block_number'[c] # block_number[c] =>
                   /\ pc[i] = "commit" \/ (pc[i] = "except" /\ failedAt[i] = 0)
                   /\ block_number[c] = startCursor[i]
                   /\ block_number'[c] = rng[i][2]
                   /\ pc'[i] \notin {"filter_fetch", "dispatch", "commit"}
            /\ pc[i] = "commit" =>
                   /\ logs[i] = SortLogs(AllLogs(monitored_events[i], rng[i][1], rng[i][2]))
                   /\ calls[i] = logs[i]
                   /\ Len(records[i]) = Cardinality(bad[i])
            /\ (pc[i] = "commit" /\ pc'[i] = "done") => block_number'[c] = rng[i][2]
            /\ (pc[i] = "filter_fetch" /\ pc'[i] = "except") =>
                   /\ calls'[i] = <<>>
                   /\ maxDispatched'[i] = 0
                   /\ block_number'[c] = startCursor[i]
            /\ (pc[i] = "except" /\ failedAt[i] # 0) =>
                   block_number'[c] = startCursor[i]]_vars

\* A range of several blocks with two watched pairs has been committed
\* after a cursor that had advanced before.
C12_Witness ==
    \E i \in Workers :
        /\ pc[i] = "done"
        /\ ethereum_logs_filter_available[i]
        /\ monitored_events[i] = {"A", "C"}
        /\ startCursor[i] >= 1
        /\ rng[i] # None
        /\ rng[i][2] > rng[i][1]
        /\ block_number[cur[i]] = rng[i][2]
        /\ maxDispatched[i] = rng[i][2]

\* Ascending by (blockNumber, logIndex).
Ascending(s) ==
    \A j, k \in 1..Len(s) :
        j < k => \/ s[j].blockNumber < s[k].blockNumber
                 \/ /\ s[j].blockNumber = s[k].blockNumber
                    /\ s[j].logIndex <= s[k].logIndex

\* s and r hold the same elements the same number of times.
IsPermutation(s, r) ==
    /\ Len(s) = Len(r)
    /\ \A k \in 1..Len(r) : Count(r[k], s) = Count(r[k], r)

\* C13: whatever the order of the pairs and of the entries of each query,
\* the sequence that the filter strategy decodes is ascending by
\* (blockNumber, logIndex) and is a permutation of the logs the queries
\* returned, and the receivers are called in that order.
C13_FilterOrdering ==
    [][\A i \in Workers :
         /\ (pc[i] = "filter_fetch" /\ pc'[i] = "dispatch") =>
                /\ Ascending(logs'[i])
                /\ IsPermutation(logs'[i],
                                 AllLogs(monitored_events[i], rng[i][1], rng[i][2]))
         /\ (pc[i] = "dispatch" /\ ethereum_logs_filter_available[i]
                /\ pc'[i] = "commit") =>
                calls'[i] = logs[i]]_vars

\* Two pairs over at least two blocks have been queried and the receivers
\* called: the logs of the two pairs alternate in the batch.
C13_Witness ==
    \E i \in Workers :
        /\ pc[i] = "commit"
        /\ ethereum_logs_filter_available[i]
        /\ Len(calls[i]) >= 4
        /\ calls[i][1].pair = "A"
        /\ calls[i][2].pair = "C"
        /\ calls[i][3].pair = "A"
        /\ calls[i][3].blockNumber > calls[i][2].blockNumber

\* A step of the gate is left by an exception: the scan of the chain is
\* over for this run, the block is not fetched, and the step has written
\* neither the table nor the signal.
GateLeftByException(i) ==
    /\ pc'[i] = "except"
    /\ monitored_events'[i] = monitored_events[i]
    /\ update_required' = update_required

\* C14: under the iteration strategy a block is scanned only after the
\* gate; when the gate reads the signal set it reloads the table from the
\* MonitoredEvent table before anything of the block is matched and then
\* clears the signal; when it reads the signal not set, table and signal are
\* left as they are; the table changes at no other step of the scan, so the
\* blocks before were matched against the table of before, and each block is
\* matched against the table held when it is fetched.  A step of the gate
\* that raises ends the scan before the block is fetched.
C14_WatchListGate ==
    [][\A i \in Workers :
         LET b == Head(pending[i]) IN
         /\ (pc'[i] = "iter_fetch" /\ pc[i] # "iter_fetch") =>
                \/ pc[i] = "check" /\ ~update_required
                \/ pc[i] = "clear" /\ reloadedAt[i] = b /\ ~update_required'
         /\ (pc[i] = "check" /\ pc'[i] # "check") =>
                \/ GateLeftByException(i)
                \/ IF update_required
                   THEN pc'[i] = "refresh"
                   ELSE /\ pc'[i] = "iter_fetch"
                        /\ monitored_events'[i] = monitored_events[i]
                        /\ update_required' = update_required
         /\ (pc[i] = "refresh" /\ pc'[i] # "refresh") =>
                \/ GateLeftByException(i)
                \/ /\ monitored_events'[i] = WatchedBy(cur[i])
                   /\ reloadedAt'[i] = b
                   /\ maxDispatched[i] < b
                   /\ pc'[i] = "clear"
         /\ (pc[i] = "clear" /\ pc'[i] # "clear") =>
                \/ GateLeftByException(i)
                \/ /\ ~update_required'
                   /\ monitored_events'[i] = monitored_events[i]
                   /\ pc'[i] = "iter_fetch"
         /\ (InBlock(i) /\ InBlock(i)' /\ monitored_events'[i] # monitored_events[i]) =>
                pc[i] = "refresh"
         /\ (pc[i] = "iter_fetch" /\ pc'[i] = "dispatch") =>
                \E received \in SUBSET TxIndexes :
                    logs'[i] = GetBlockLogs(b, received, monitored_events[i])]_vars

\* The gate reloaded at the second block of a scan or later, and a log of
\* the pair registered meanwhile has been matched in that block.
C14_Witness ==
    \E i \in Workers :
        /\ pc[i] = "dispatch"
        /\ ~ethereum_logs_filter_available[i]
        /\ ~update_required
        /\ reloadedAt[i] = Head(pending[i])
        /\ reloadedAt[i] >= startCursor[i] + 2
        /\ \E k \in 1..Len(logs[i]) : logs[i][k].pair = "C"

\* C15 as claimed: once a block is past the gate with the signal cleared,
\* the decoder table holds every change made to the watch-list of the chain.
C15_NoLostChange ==
    \A i \in Workers :
        (pc[i] \in {"iter_fetch", "dispatch", "commit"}
            /\ ~ethereum_logs_filter_available[i] /\ ~update_required) =>
            monitored_events[i] = WatchedBy(cur[i])

\* C16 as claimed: when the cursor of a chain is raised to block b under the
\* iteration strategy, every log of block b whose pair is in the decoder
\* table used for b has been handed to its receiver, the logs of
\* transactions whose receipt was not returned included.
C16_NoWatchedLogSkipped ==
    [][\A i \in Workers :
         (pc[i] = "commit" /\ ~ethereum_logs_filter_available[i]
             /\ block_number'[cur[i]] >= Head(pending[i])) =>
             LET watched == MatchingLogs(Head(pending[i]), monitored_events[i]) IN
             \A k \in 1..Len(watched) :
                 \E j \in 1..Len(calls[i]) : calls[i][j] = watched[k]]_vars

\* The lock is held and no running invocation holds it.
Wedged == lock /\ \A i \in Workers : ~Holder(i)

\* C17: when the process of the invocation that holds the lock is
\* terminated the lock stays held; from then on it is held in every state,
\* every invocation that starts is skipped, and no cursor changes.
C17_CrashedHolderWedges ==
    [][/\ \A i \in Workers :
            (Holder(i) /\ pc'[i] = "idle" /\ returned' = "none") => Wedged'
       /\ Wedged =>
            /\ Wedged'
            /\ block_number' = block_number
            /\ \A i \in Workers :
                   (pc[i] = "idle" /\ pc'[i] # "idle") =>
                       /\ pc'[i] = "release"
                       /\ ~status'[i]
                       /\ outcome'[i] = "skipped"]_vars

\* After the holder was terminated an invocation has been skipped although
\* a chain has blocks pending.
C17_Witness ==
    /\ Wedged
    /\ returned = "skipped"
    /\ \E c \in Chains : block_number[c] < blockNumber

\* C18: a step changes the persisted cursor or the persisted error position
\* of a chain only if it is a step of the invocation that holds the lock,
\* taken while that chain is the one being processed, in the commit or in
\* the error record; the Daemon object of a chain in memory changes only
\* then too, or when the rows are loaded or the invocation ends.  So the
\* processing of a chain, whether it succeeds or raises, leaves the rows of
\* the other chains as they are.
C18_ChainIndependence ==
    [][\A c \in Chains :
         /\ (block_number'[c] # block_number[c]
                \/ last_error_block_number'[c] # last_error_block_number[c]) =>
                \E i \in Workers :
                    /\ cur[i] = c
                    /\ status[i]
                    /\ pc[i] \in {"commit", "except"}
         /\ \A i \in Workers :
                (daemons'[i][c] # daemons[i][c]) =>
                    \/ pc[i] \in {"load", "release"}
                    \/ pc'[i] = "idle"
                    \/ cur[i] = c /\ pc[i] \in {"commit", "except"}]_vars

\* In one run the first chain raised and had its error position recorded
\* after it had advanced, and the second chain has advanced since with no
\* error on record.
C18_Witness ==
    \E i \in Workers :
        /\ cur[i] = 2
        /\ pc[i] = "done"
        /\ daemons[i][1].last_error_block_number = daemons[i][1].block_number + 1
        /\ block_number[1] >= 1
        /\ last_error_block_number[1] = block_number[1] + 1
        /\ block_number[2] > startCursor[i]
        /\ last_error_block_number[2] = 0

\* C19: when the only failures are those of the node and of the receivers,
\* nothing is handed to a receiver while the fetch of a unit is going on, and
\* what has been handed is from committed blocks except between the
\* dispatch of a unit and its commit; so a run that a fetch failure aborts
\* has dispatched nothing from an uncommitted block.  Every dispatch hands
\* each of its events once, and only events of blocks above every block
\* handed before for the chain: no event is handed twice, whatever the
\* sequence of runs.
C19_AtMostOnce ==
    [][/\ \A c \in Chains :
            handedUpTo[c] > block_number[c] =>
                \E i \in Workers : cur[i] = c /\ pc[i] = "commit"
       /\ \A i \in Workers :
            LET c == cur[i] IN
            /\ pc[i] \in {"filter_fetch", "iter_fetch"} =>
                   /\ calls[i] = <<>>
                   /\ handedUpTo[c] = block_number[c]
            /\ (pc'[i] = "except" /\ pc[i] # "except") =>
                   /\ pc[i] \in {"execute", "filter_fetch", "iter_fetch"}
                   /\ handedUpTo'[c] = block_number'[c]
                   /\ calls'[i] = <<>>
            /\ (pc[i] = "dispatch" /\ pc'[i] # "dispatch") =>
                   \A k \in 1..Len(calls'[i]) :
                       /\ calls'[i][k].blockNumber > handedUpTo[c]
                       /\ calls'[i][k].blockNumber <= handedUpTo'[c]
                       /\ Count(calls'[i][k], calls'[i]) = 1]_vars

\* A block whose fetch failed in an earlier run is fetched again and its
\* events are dispatched, one of the receivers raising.
C19_Witness ==
    \E i \in Workers :
        /\ pc[i] = "commit"
        /\ ~ethereum_logs_filter_available[i]
        /\ last_error_block_number[cur[i]] = Head(pending[i])
        /\ Head(pending[i]) >= 2
        /\ calls[i] # <<>>
        /\ bad[i] # {}

\* The step that ends the processing of a chain whose listener was built.
EndsChainRun(i) == pc[i] \in {"done", "except"} /\ pc'[i] # pc[i]

\* C20 as claimed: with the head fixed at MaxHead, every invocation finding
\* the lock free and the node answering every request, every run of a chain
\* whose cursor was below the head ends with the cursor of that chain higher.
C20_EveryRunAdvances ==
    [][\A i \in Workers :
         (EndsChainRun(i) /\ startCursor[i] < MaxHead) =>
             block_number'[cur[i]] > startCursor[i]]_vars

\* C20 amended: under the same premises no step lowers a cursor or moves
\* it above the head; every run of a chain in which execute() returns, the
\* cursor having been below the head, has raised the cursor, so that the
\* cursor is at the head after at most MaxHead - cursor such runs; a run
\* that ends with an exception has not lowered the cursor; and a run of a
\* chain whose cursor is at the head resolves no range, dispatches nothing,
\* raises nothing and leaves the cursor at the head.
C20_Progress ==
    [][/\ \A c \in Chains :
            /\ block_number'[c] >= block_number[c]
            /\ block_number'[c] <= MaxHead
       /\ \A i \in Workers :
            LET c == cur[i] IN
            /\ (pc[i] = "done" /\ pc'[i] # "done") =>
                   IF startCursor[i] < MaxHead
                   THEN /\ block_number[c] > startCursor[i]
                        /\ block_number[c] <= MaxHead
                        /\ block_number'[c] = block_number[c]
                   ELSE /\ rng[i] = None
                        /\ maxDispatched[i] = 0
                        /\ handedUpTo[c] <= MaxHead
                        /\ block_number[c] = MaxHead
                        /\ block_number'[c] = MaxHead
            /\ EndsChainRun(i) =>
                   /\ block_number'[c] >= startCursor[i]
                   /\ startCursor[i] = MaxHead => pc[i] = "done"]_vars

\* Both chains are at the head and a later run of the second chain has found
\* nothing pending.
C20_Witness ==
    \E i \in Workers :
        /\ pc[i] = "done"
        /\ cur[i] = 2
        /\ rng[i] = None
        /\ startCursor[i] = MaxHead
        /\ \A c \in Chains : block_number[c] = MaxHead

====
